---- MODULE Spec2Model ----
(***************************************************************************)
(* Model of the bit-packing codecs of src/src/bitpacking.py: PackedCross,  *)
(* PackedAligned and OverflowPacking (compress, decompress, get), with    *)
(* the ZigZag transform.                                                   *)
(*                                                                         *)
(* Python integers are unbounded two's-complement numbers.  A Python int   *)
(* is modelled as a record [neg, bits]: when neg is FALSE, bits is the set *)
(* of positions of its one bits; when neg is TRUE the number is ~y, where  *)
(* y is the non-negative number whose one bits are at the positions bits   *)
(* (so bits holds the positions of the ZERO bits of the number).  Small    *)
(* counters (k, bit lengths, list indices, lengths) are plain integers.    *)
(***************************************************************************)
EXTENDS Integers, Sequences, FiniteSets, TLC

WORD_BITS == 32

\* ------------------------------------------------------------------------
\* Python int arithmetic on the [neg, bits] representation
\* ------------------------------------------------------------------------

Big(neg, bits) == [neg |-> neg, bits |-> bits]

Zero == Big(FALSE, {})

One == Big(FALSE, {0})

MinusOne == Big(TRUE, {})

SetMin(S) == CHOOSE b \in S : \A c \in S : b <= c

SetMax(S) == CHOOSE b \in S : \A c \in S : c <= b

\* x << s
Shl(x, s) ==
  IF x.neg THEN Big(TRUE, {b + s : b \in x.bits} \cup (0..(s - 1)))
           ELSE Big(FALSE, {b + s : b \in x.bits})

\* x >> s (arithmetic: the sign is kept)
Shr(x, s) == Big(x.neg, {b - s : b \in {c \in x.bits : c >= s}})

\* a & b
BAnd(a, b) ==
  CASE ~a.neg /\ ~b.neg -> Big(FALSE, a.bits \cap b.bits)
    [] ~a.neg /\ b.neg  -> Big(FALSE, a.bits \ b.bits)
    [] a.neg /\ ~b.neg  -> Big(FALSE, b.bits \ a.bits)
    [] a.neg /\ b.neg   -> Big(TRUE, a.bits \cup b.bits)

\* a | b
BOr(a, b) ==
  CASE ~a.neg /\ ~b.neg -> Big(FALSE, a.bits \cup b.bits)
    [] ~a.neg /\ b.neg  -> Big(TRUE, b.bits \ a.bits)
    [] a.neg /\ ~b.neg  -> Big(TRUE, a.bits \ b.bits)
    [] a.neg /\ b.neg   -> Big(TRUE, a.bits \cap b.bits)

\* a ^ b
BXor(a, b) ==
  Big(a.neg # b.neg, (a.bits \ b.bits) \cup (b.bits \ a.bits))

\* the bits of y + 1, from the bits of a non-negative y
IncBits(S) ==
  LET l == CHOOSE l \in 0..Cardinality(S) :
             l \notin S /\ \A m \in 0..(l - 1) : m \in S
  IN  {b \in S : b > l} \cup {l}

\* the bits of y - 1, from the bits of a positive y
DecBits(S) ==
  LET l == SetMin(S) IN (S \ {l}) \cup (0..(l - 1))

\* x - 1
Dec(x) ==
  IF x.neg THEN Big(TRUE, IncBits(x.bits))
  ELSE IF x.bits = {} THEN MinusOne
  ELSE Big(FALSE, DecBits(x.bits))

\* -x, which is ~(x - 1)
Neg(x) == LET d == Dec(x) IN Big(~d.neg, d.bits)

\* a <= b
BLe(a, b) ==
  LET diff == (a.bits \ b.bits) \cup (b.bits \ a.bits) IN
  CASE a.neg /\ ~b.neg  -> TRUE
    [] ~a.neg /\ b.neg  -> FALSE
    [] ~a.neg /\ ~b.neg -> diff = {} \/ SetMax(diff) \in b.bits
    [] a.neg /\ b.neg   -> diff = {} \/ SetMax(diff) \in a.bits

\* a small non-negative counter as a Python int
Nat2Big(n) == Big(FALSE, {b \in 0..30 : (n \div (2 ^ b)) % 2 = 1})

\* the sum of 2^b over the positions b of S that lie in lo..hi
RECURSIVE SumBits(_, _, _)
SumBits(S, lo, hi) ==
  IF lo = hi THEN (IF lo \in S THEN 2 ^ lo ELSE 0)
  ELSE LET mid == (lo + hi) \div 2
       IN  SumBits(S, lo, mid) + SumBits(S, mid + 1, hi)

\* a Python int known to lie in 0 .. 2^31 - 1 as a small counter
Big2Nat(x) == SumBits(x.bits, 0, 30)

WORD_MASK == Dec(Shl(One, WORD_BITS))

\* ------------------------------------------------------------------------
\* ZigZag
\* ------------------------------------------------------------------------

zigzag_encode(x) == BXor(Shl(x, 1), Shr(x, 31))

\* mutant: the low bit is not negated before the XOR
zigzag_decode_NoNegate(z) == BXor(Shr(z, 1), BAnd(z, One))

zigzag_decode(z) == BXor(Shr(z, 1), Neg(BAnd(z, One)))

\* ------------------------------------------------------------------------
\* Shared pieces of the three codecs
\* ------------------------------------------------------------------------

\* (1 << k) - 1
LowMask(k) == Dec(Shl(One, k))

\* (lo & 0xFFFF) | ((n & 0xFFFF) << 16): the cross / aligned header word
Header16(k, n) ==
  BOr(BAnd(Nat2Big(k), Nat2Big(65535)),
      Shl(BAnd(Nat2Big(n), Nat2Big(65535)), 16))

\* header & 0xFFFF
HeaderK(header) == Big2Nat(BAnd(header, Nat2Big(65535)))

\* (header >> 16) & 0xFFFF
HeaderLength(header) == Big2Nat(BAnd(Shr(header, 16), Nat2Big(65535)))

\* zigzag_encode(v) if use_zigzag else v
PreTransform(zz, v) == IF zz THEN zigzag_encode(v) ELSE v

\* zigzag_decode(val) if use_zigzag else val
PostTransform(zz, val) == IF zz THEN zigzag_decode(val) ELSE val

\* compressed[w] if w < len(compressed) else 0   (w is a 0-based list index)
WordOrZero(compressed, w) ==
  IF w < Len(compressed) THEN compressed[w + 1] ELSE Zero

\* mutant: the upper end of the range is off by one
IndexInRange_OffByOne(idx, length) == 0 <= idx /\ idx <= length

\* the assert of get: 0 <= idx < length
IndexInRange(idx, length) == 0 <= idx /\ idx < length

\* the value a call returns, or the exception it raises
Returned(v) == [fault |-> "none", val |-> v]

Raised(e) == [fault |-> e, val |-> Zero]

\* ------------------------------------------------------------------------
\* PackedCross
\*
\* A loop of the code is an operator XxxRun(.., n, st): the state after at
\* most n further passes of the loop from state st, the passes taken in the
\* code's order (n passes are n \div 2 passes followed by the rest).
\* ------------------------------------------------------------------------

\* while bitlen >= WORD_BITS: emit the low word
RECURSIVE CrossFlush(_)
CrossFlush(st) ==
  IF st.bitlen >= WORD_BITS
  THEN CrossFlush([st EXCEPT !.bitstream = Shr(st.bitstream, WORD_BITS),
                             !.bitlen    = st.bitlen - WORD_BITS,
                             !.out       = Append(st.out,
                                                  BAnd(st.bitstream, WORD_MASK))])
  ELSE st

\* one pass of "for v in arr"; st.i is the position of v in arr
CrossPackStep(k, zz, arr, st) ==
  LET val == BAnd(PreTransform(zz, arr[st.i]), LowMask(k))
  IN  CrossFlush([i         |-> st.i + 1,
                  bitstream |-> BOr(st.bitstream, Shl(val, st.bitlen)),
                  bitlen    |-> st.bitlen + k,
                  out       |-> st.out])

RECURSIVE CrossPackRun(_, _, _, _, _)
CrossPackRun(k, zz, arr, n, st) ==
  IF n = 0 \/ st.i > Len(arr) THEN st
  ELSE IF n = 1 THEN CrossPackStep(k, zz, arr, st)
  ELSE CrossPackRun(k, zz, arr, n - (n \div 2),
                    CrossPackRun(k, zz, arr, n \div 2, st))

\* mutant: the partly filled last word is not flushed
PackedCross_compress_NoFlush(k, zz, arr) ==
  LET st == CrossPackRun(k, zz, arr, Len(arr),
                         [i |-> 1, bitstream |-> Zero, bitlen |-> 0, out |-> <<>>])
  IN  <<Header16(k, Len(arr))>> \o st.out

PackedCross_compress(k, zz, arr) ==
  LET st  == CrossPackRun(k, zz, arr, Len(arr),
                          [i |-> 1, bitstream |-> Zero, bitlen |-> 0, out |-> <<>>])
      out == IF st.bitlen # 0
             THEN Append(st.out, BAnd(st.bitstream, WORD_MASK))
             ELSE st.out
  IN  <<Header16(k, Len(arr))>> \o out

\* one pass of "while len(out) < length"; stop is set by the break
CrossUnpackStep(compressed, k, zz, st) ==
  IF st.bitlen < k /\ ~(st.i_word < Len(compressed))
  THEN [st EXCEPT !.stop = TRUE]
  ELSE
    LET ld  == IF st.bitlen < k
               THEN [st EXCEPT !.bitstream = BOr(st.bitstream,
                                   Shl(compressed[st.i_word + 1], st.bitlen)),
                               !.bitlen    = st.bitlen + WORD_BITS,
                               !.i_word    = st.i_word + 1]
               ELSE st
        val == BAnd(ld.bitstream, LowMask(k))
    IN  [ld EXCEPT !.bitstream = Shr(ld.bitstream, k),
                   !.bitlen    = ld.bitlen - k,
                   !.out       = Append(st.out, PostTransform(zz, val))]

RECURSIVE CrossUnpackRun(_, _, _, _, _, _)
CrossUnpackRun(compressed, k, length, zz, n, st) ==
  IF n = 0 \/ st.stop \/ ~(Len(st.out) < length) THEN st
  ELSE IF n = 1 THEN CrossUnpackStep(compressed, k, zz, st)
  ELSE CrossUnpackRun(compressed, k, length, zz, n - (n \div 2),
                      CrossUnpackRun(compressed, k, length, zz, n \div 2, st))

\* the list out after the call, and the exception the call raised (if any);
\* every pass that does not break appends one value, so length passes end the loop
PackedCross_decompress(compressed, zz, out0) ==
  IF compressed = <<>> THEN [fault |-> "none", out |-> out0]
  ELSE
    LET header == compressed[1]
        length == HeaderLength(header)
        st == CrossUnpackRun(compressed, HeaderK(header), length, zz, length,
                             [bitstream |-> Zero, bitlen |-> 0, i_word |-> 1,
                              out |-> <<>>, stop |-> FALSE])
    IN  [fault |-> "none", out |-> st.out]

\* mutant: only the low word is read
ExtractAt_LowOnly(compressed, idx, k) ==
  LET bitpos   == idx * k
      word_idx == 1 + (bitpos \div WORD_BITS)
      bit_off  == bitpos % WORD_BITS
      low      == WordOrZero(compressed, word_idx)
  IN  BAnd(Shr(low, bit_off), LowMask(k))

\* ((low | (high << WORD_BITS)) >> bit_off) & ((1 << k) - 1) at bit idx * k
ExtractAt(compressed, idx, k) ==
  LET bitpos   == idx * k
      word_idx == 1 + (bitpos \div WORD_BITS)
      bit_off  == bitpos % WORD_BITS
      low      == WordOrZero(compressed, word_idx)
      high     == WordOrZero(compressed, word_idx + 1)
  IN  BAnd(Shr(BOr(low, Shl(high, WORD_BITS)), bit_off), LowMask(k))

PackedCross_get(compressed, zz, idx) ==
  IF compressed = <<>> THEN Raised("IndexError")
  ELSE
    LET header == compressed[1]
        k      == HeaderK(header)
        length == HeaderLength(header)
    IN  IF ~IndexInRange(idx, length) THEN Raised("AssertionError")
        ELSE Returned(PostTransform(zz, ExtractAt(compressed, idx, k)))

\* ------------------------------------------------------------------------
\* PackedAligned
\* ------------------------------------------------------------------------

\* one pass of "for v in arr"; st.i is the position of v in arr
AlignedPackStep(k, zz, arr, st) ==
  LET val  == BAnd(PreTransform(zz, arr[st.i]), LowMask(k))
      cur  == BOr(st.cur, Shl(val, st.used * k))
      used == st.used + 1
  IN  IF used = WORD_BITS \div k
      THEN [i |-> st.i + 1, cur |-> Zero, used |-> 0,
            out |-> Append(st.out, BAnd(cur, WORD_MASK))]
      ELSE [i |-> st.i + 1, cur |-> cur, used |-> used, out |-> st.out]

RECURSIVE AlignedPackRun(_, _, _, _, _)
AlignedPackRun(k, zz, arr, n, st) ==
  IF n = 0 \/ st.i > Len(arr) THEN st
  ELSE IF n = 1 THEN AlignedPackStep(k, zz, arr, st)
  ELSE AlignedPackRun(k, zz, arr, n - (n \div 2),
                      AlignedPackRun(k, zz, arr, n \div 2, st))

\* mutant: the partly filled last word is not flushed
PackedAligned_compress_NoFlush(k, zz, arr) ==
  AlignedPackRun(k, zz, arr, Len(arr),
                 [i |-> 1, cur |-> Zero, used |-> 0,
                  out |-> <<Header16(k, Len(arr))>>]).out

PackedAligned_compress(k, zz, arr) ==
  LET st == AlignedPackRun(k, zz, arr, Len(arr),
                           [i |-> 1, cur |-> Zero, used |-> 0,
                            out |-> <<Header16(k, Len(arr))>>])
  IN  IF st.used # 0 THEN Append(st.out, BAnd(st.cur, WORD_MASK)) ELSE st.out

\* one pass of "for j in range(per_word)"; ws is [j, cur, out]
AlignedSlotStep(k, zz, ws) ==
  LET val == BAnd(ws.cur, LowMask(k))
  IN  [j   |-> ws.j + 1,
       cur |-> Shr(ws.cur, k),
       out |-> IF k # 0 THEN Append(ws.out, PostTransform(zz, val)) ELSE ws.out]

RECURSIVE AlignedSlotRun(_, _, _, _, _, _)
AlignedSlotRun(k, length, zz, per_word, n, ws) ==
  IF n = 0 \/ ws.j >= per_word \/ Len(ws.out) >= length THEN ws
  ELSE IF n = 1 THEN AlignedSlotStep(k, zz, ws)
  ELSE AlignedSlotRun(k, length, zz, per_word, n - (n \div 2),
                      AlignedSlotRun(k, length, zz, per_word, n \div 2, ws))

\* one pass of "while len(out) < length and i < len(compressed)"
AlignedUnpackStep(compressed, k, length, zz, per_word, st) ==
  [i   |-> st.i + 1,
   out |-> AlignedSlotRun(k, length, zz, per_word, per_word,
                          [j |-> 0, cur |-> compressed[st.i + 1],
                           out |-> st.out]).out]

RECURSIVE AlignedUnpackRun(_, _, _, _, _, _, _)
AlignedUnpackRun(compressed, k, length, zz, per_word, n, st) ==
  IF n = 0 \/ ~(Len(st.out) < length /\ st.i < Len(compressed)) THEN st
  ELSE IF n = 1 THEN AlignedUnpackStep(compressed, k, length, zz, per_word, st)
  ELSE AlignedUnpackRun(compressed, k, length, zz, per_word, n - (n \div 2),
         AlignedUnpackRun(compressed, k, length, zz, per_word, n \div 2, st))

\* every pass takes one word of compressed, so Len(compressed) passes end the loop
PackedAligned_decompress(compressed, zz, out0) ==
  IF compressed = <<>> THEN [fault |-> "IndexError", out |-> out0]
  ELSE
    LET header == compressed[1]
        k      == HeaderK(header)
        length == HeaderLength(header)
    IN  IF k = 0 THEN [fault |-> "ZeroDivisionError", out |-> out0]
        ELSE [fault |-> "none",
              out   |-> AlignedUnpackRun(compressed, k, length, zz,
                                         WORD_BITS \div k, Len(compressed),
                                         [i |-> 1, out |-> <<>>]).out]

PackedAligned_get(compressed, zz, idx) ==
  IF compressed = <<>> THEN Raised("IndexError")
  ELSE
    LET header == compressed[1]
        k      == HeaderK(header)
        length == HeaderLength(header)
    IN  IF k = 0 THEN Raised("ZeroDivisionError")
        ELSE IF ~IndexInRange(idx, length) THEN Raised("AssertionError")
        ELSE
          LET per_word    == WORD_BITS \div k
              word_idx    == 1 + (idx \div per_word)
              pos_in_word == idx % per_word
          IN  IF per_word = 0 THEN Raised("ZeroDivisionError")
              ELSE IF word_idx >= Len(compressed) THEN Returned(Zero)
              ELSE Returned(PostTransform(zz,
                     BAnd(Shr(compressed[word_idx + 1], pos_in_word * k),
                          LowMask(k))))

\* ------------------------------------------------------------------------
\* OverflowPacking
\* ------------------------------------------------------------------------

\* mutant: the all-ones token is not reserved
InlineMax_NoReserve(small_k) == Dec(Shl(One, small_k))

\* (1 << small_k) - 2: the largest value stored inline
InlineMax(small_k) == Dec(Dec(Shl(One, small_k)))

\* val <= mask: the value is written as its own token
FitsInline(val, small_k) == BLe(val, InlineMax(small_k))

\* (small_k & 0xFF) | ((n & 0xFFFF) << 8) | ((c & 0xFF) << 24)
OverflowHeader(small_k, n, c) ==
  BOr(BOr(BAnd(Nat2Big(small_k), Nat2Big(255)),
          Shl(BAnd(Nat2Big(n), Nat2Big(65535)), 8)),
      Shl(BAnd(Nat2Big(c), Nat2Big(255)), 24))

\* header0 & 0xFF
OverflowHeaderK(header0) == Big2Nat(BAnd(header0, Nat2Big(255)))

\* (header0 >> 8) & 0xFFFF
OverflowHeaderLength(header0) == Big2Nat(BAnd(Shr(header0, 8), Nat2Big(65535)))

\* (header0 >> 24) & 0xFF
OverflowHeaderCount(header0) == Big2Nat(BAnd(Shr(header0, 24), Nat2Big(255)))

\* mutant: the body length is rounded down
OverflowStart_Floor(length, small_k) ==
  LET w == (length * small_k) \div WORD_BITS
  IN  1 + (IF w > 0 THEN w ELSE 0)

\* 1 + max(0, (length*small_k + WORD_BITS - 1) // WORD_BITS)
OverflowStart(length, small_k) ==
  LET w == (length * small_k + WORD_BITS - 1) \div WORD_BITS
  IN  1 + (IF w > 0 THEN w ELSE 0)

\* while bitlen >= WORD_BITS: emit the low word
RECURSIVE OverflowFlush(_)
OverflowFlush(st) ==
  IF st.bitlen >= WORD_BITS
  THEN OverflowFlush([st EXCEPT !.bitstream = Shr(st.bitstream, WORD_BITS),
                                !.bitlen    = st.bitlen - WORD_BITS,
                                !.out_main  = Append(st.out_main,
                                                BAnd(st.bitstream, WORD_MASK))])
  ELSE st

\* one pass of "for v in arr"; st.i is the position of v in arr
OverflowPackStep(small_k, zz, arr, st) ==
  LET val   == PreTransform(zz, arr[st.i])
      fits  == FitsInline(val, small_k)
      token == IF fits THEN val ELSE LowMask(small_k)
  IN  OverflowFlush([i         |-> st.i + 1,
                     bitstream |-> BOr(st.bitstream, Shl(token, st.bitlen)),
                     bitlen    |-> st.bitlen + small_k,
                     out_main  |-> st.out_main,
                     overflow  |-> IF fits THEN st.overflow
                                   ELSE Append(st.overflow, val)])

RECURSIVE OverflowPackRun(_, _, _, _, _)
OverflowPackRun(small_k, zz, arr, n, st) ==
  IF n = 0 \/ st.i > Len(arr) THEN st
  ELSE IF n = 1 THEN OverflowPackStep(small_k, zz, arr, st)
  ELSE OverflowPackRun(small_k, zz, arr, n - (n \div 2),
                       OverflowPackRun(small_k, zz, arr, n \div 2, st))

OverflowPacking_compress(small_k, zz, arr) ==
  LET st == OverflowPackRun(small_k, zz, arr, Len(arr),
                            [i |-> 1, bitstream |-> Zero, bitlen |-> 0,
                             out_main |-> <<>>, overflow |-> <<>>])
      out_main == IF st.bitlen # 0
                  THEN Append(st.out_main, BAnd(st.bitstream, WORD_MASK))
                  ELSE st.out_main
  IN  <<OverflowHeader(small_k, Len(arr), Len(st.overflow))>>
        \o out_main \o st.overflow

\* one pass of "while len(out) < length"; stop is set by the break, fault by
\* the exception a list index out of range raises
OverflowUnpackStep(compressed, small_k, zz, st) ==
  IF st.bitlen < small_k /\ ~(st.i_word < st.overflow_idx)
  THEN [st EXCEPT !.stop = TRUE]
  ELSE IF st.bitlen < small_k /\ ~(st.i_word < Len(compressed))
  THEN [st EXCEPT !.fault = "IndexError"]
  ELSE
    LET ld == IF st.bitlen < small_k
              THEN [st EXCEPT !.bitstream = BOr(st.bitstream,
                                  Shl(compressed[st.i_word + 1], st.bitlen)),
                              !.bitlen    = st.bitlen + WORD_BITS,
                              !.i_word    = st.i_word + 1]
              ELSE st
        mask  == LowMask(small_k)
        token == BAnd(ld.bitstream, mask)
        nx    == [ld EXCEPT !.bitstream = Shr(ld.bitstream, small_k),
                            !.bitlen    = ld.bitlen - small_k]
    IN  IF token = mask
        THEN IF ~(st.overflow_idx < Len(compressed))
             THEN [nx EXCEPT !.fault = "IndexError"]
             ELSE [nx EXCEPT !.overflow_idx = st.overflow_idx + 1,
                             !.out = Append(st.out,
                               PostTransform(zz, compressed[st.overflow_idx + 1]))]
        ELSE [nx EXCEPT !.out = Append(st.out, PostTransform(zz, token))]

RECURSIVE OverflowUnpackRun(_, _, _, _, _, _)
OverflowUnpackRun(compressed, small_k, length, zz, n, st) ==
  IF n = 0 \/ st.stop \/ st.fault # "none" \/ ~(Len(st.out) < length) THEN st
  ELSE IF n = 1 THEN OverflowUnpackStep(compressed, small_k, zz, st)
  ELSE OverflowUnpackRun(compressed, small_k, length, zz, n - (n \div 2),
         OverflowUnpackRun(compressed, small_k, length, zz, n \div 2, st))

\* every pass that neither breaks nor raises appends one value, so length
\* passes end the loop
OverflowPacking_decompress(compressed, zz, out0) ==
  IF compressed = <<>> THEN [fault |-> "none", out |-> out0]
  ELSE
    LET header0 == compressed[1]
        small_k == OverflowHeaderK(header0)
        length  == OverflowHeaderLength(header0)
        st == OverflowUnpackRun(compressed, small_k, length, zz, length,
                [bitstream |-> Zero, bitlen |-> 0, i_word |-> 1,
                 overflow_idx |-> OverflowStart(length, small_k),
                 out |-> <<>>, stop |-> FALSE, fault |-> "none"])
    IN  [fault |-> st.fault, out |-> st.out]

\* "for i in range(idx)": the number of reserved tokens among indices 0 .. idx-1
CountReserved(compressed, small_k, idx) ==
  Cardinality({i \in 0..(idx - 1) :
                 ExtractAt(compressed, i, small_k) = LowMask(small_k)})

OverflowPacking_get(compressed, zz, idx) ==
  IF compressed = <<>> THEN Raised("IndexError")
  ELSE
    LET header0 == compressed[1]
        small_k == OverflowHeaderK(header0)
        length  == OverflowHeaderLength(header0)
    IN  IF ~IndexInRange(idx, length) THEN Raised("AssertionError")
        ELSE
          LET token == ExtractAt(compressed, idx, small_k)
          IN  IF token = LowMask(small_k)
              THEN LET at == OverflowStart(length, small_k)
                               + CountReserved(compressed, small_k, idx)
                   IN  IF at < Len(compressed)
                       THEN Returned(PostTransform(zz, compressed[at + 1]))
                       ELSE Raised("IndexError")
              ELSE Returned(PostTransform(zz, token))

\* ------------------------------------------------------------------------
\* CompressionFactory: dispatch on the mode
\* ------------------------------------------------------------------------

Codec_compress(m, kk, zz, a) ==
  CASE m = "cross"    -> PackedCross_compress(kk, zz, a)
    [] m = "aligned"  -> PackedAligned_compress(kk, zz, a)
    [] m = "overflow" -> OverflowPacking_compress(kk, zz, a)

Codec_decompress(m, zz, compressed, out0) ==
  CASE m = "cross"    -> PackedCross_decompress(compressed, zz, out0)
    [] m = "aligned"  -> PackedAligned_decompress(compressed, zz, out0)
    [] m = "overflow" -> OverflowPacking_decompress(compressed, zz, out0)

Codec_get(m, zz, compressed, idx) ==
  CASE m = "cross"    -> PackedCross_get(compressed, zz, idx)
    [] m = "aligned"  -> PackedAligned_get(compressed, zz, idx)
    [] m = "overflow" -> OverflowPacking_get(compressed, zz, idx)

\* ------------------------------------------------------------------------
\* Inputs
\* ------------------------------------------------------------------------

\* the longest array of the exhaustive enumeration
MaxLen == 3

\* the width of the overflow_count header field, as a count: 0xFF
OVERFLOW_COUNT_MAX == 255

Modes == {"cross", "aligned", "overflow"}

\* bits_per_value of PackedBase (0 < k <= 32), small_k of OverflowPacking (1 <= k < 32)
Widths(m) ==
  IF m = "overflow" THEN {1, 4, 12, 31} ELSE {1, 4, 12, 20, 31, WORD_BITS}

\* 2^b, 2^b - 1, -(2^b)
Pow2(b) == Shl(One, b)

Ones(b) == Dec(Shl(One, b))

NegPow2(b) == Neg(Shl(One, b))

\* the values the arrays are made of: the ends of the admissible range and the
\* first value past it (cross, aligned), the values around the reserved token
\* (overflow), the ends of the 32-bit range
Pool(m, kk, zz) ==
  CASE m # "overflow" /\ ~zz -> {Zero, One, Ones(kk), Pow2(kk)}
    [] m # "overflow" /\ zz  -> {Zero, MinusOne, Pow2(1), Ones(kk - 1),
                                 NegPow2(kk - 1), Pow2(kk - 1)}
    [] m = "overflow" /\ ~zz -> {Zero, Dec(Ones(kk)), Ones(kk), Ones(WORD_BITS)}
    [] m = "overflow" /\ zz  -> {Zero, MinusOne, Ones(kk - 1), NegPow2(kk - 1),
                                 NegPow2(WORD_BITS - 1)}

\* every array of at most MaxLen pool values
ShortArrays(P) == UNION {[1..n -> P] : n \in 0..MaxLen}

\* overflow mode: arrays around the 255 values the header can count, of two
\* alternating values, the first of them one that is escaped
LongArrays(kk, zz, P) ==
  {[i \in 1..n |-> IF i % 2 = 1 THEN a ELSE b] :
     a \in {v \in P : ~FitsInline(PreTransform(zz, v), kk)},
     b \in P,
     n \in {OVERFLOW_COUNT_MAX, OVERFLOW_COUNT_MAX + 1}}

Arrays(m, kk, zz) ==
  ShortArrays(Pool(m, kk, zz))
    \cup (IF m = "overflow" THEN LongArrays(kk, zz, Pool(m, kk, zz)) ELSE {})

\* the header word with its k (small_k) field cleared
ZeroWidthHeader(m, header) ==
  BAnd(header, Neg(Pow2(IF m = "overflow" THEN 8 ELSE 16)))

\* the streams handed to decompress: the stream compress returned, that stream
\* without its last word, no stream at all, and that stream with a header
\* whose width field is 0
StreamInputs(m, c) ==
  {c, SubSeq(c, 1, Len(c) - 1), <<>>,
   <<ZeroWidthHeader(m, c[1])>> \o SubSeq(c, 2, Len(c))}

\* the indices handed to get: from -1 to one past the end (of a long array,
\* its first and its last indices)
GetInputs(a) ==
  {i \in -1..Len(a) : i <= MaxLen + 1 \/ i >= Len(a) - 2}

\* ------------------------------------------------------------------------
\* The program: a codec is created, compresses an array, and the stream is
\* decompressed or read at an index
\* ------------------------------------------------------------------------

VARIABLES mode, k, use_zigzag, arr, pc, compressed, words, out, idx, got, raised

vars == <<mode, k, use_zigzag, arr, pc, compressed, words, out, idx, got, raised>>

\* CompressionFactory.create and the caller's array
Init ==
  /\ mode \in Modes
  /\ k \in Widths(mode)
  /\ use_zigzag \in BOOLEAN
  /\ arr \in Arrays(mode, k, use_zigzag)
  /\ pc = "new"
  /\ compressed = <<>>
  /\ words = <<>>
  /\ out = <<>>
  /\ idx = 0
  /\ got = Zero
  /\ raised = "none"

\* compressed = comp.compress(values)
Compress ==
  /\ pc = "new"
  /\ compressed' = Codec_compress(mode, k, use_zigzag, arr)
  /\ raised' = "none"
  /\ pc' = "packed"
  /\ UNCHANGED <<mode, k, use_zigzag, arr, words, out, idx, got>>

\* out = []; comp.decompress(s, out), for a stream s
Decompress ==
  /\ pc = "packed"
  /\ \E s \in StreamInputs(mode, compressed) :
       LET r == Codec_decompress(mode, use_zigzag, s, <<>>)
       IN  /\ out' = r.out
           /\ raised' = r.fault
           /\ words' = s
  /\ pc' = "unpacked"
  /\ UNCHANGED <<mode, k, use_zigzag, arr, compressed, idx, got>>

\* comp.get(compressed, i), for an index i
Get ==
  /\ pc = "packed"
  /\ \E i \in GetInputs(arr) :
       LET r == Codec_get(mode, use_zigzag, compressed, i)
       IN  /\ got' = r.val
           /\ raised' = r.fault
           /\ idx' = i
  /\ pc' = "read"
  /\ UNCHANGED <<mode, k, use_zigzag, arr, compressed, words, out>>

Next == Compress \/ Decompress \/ Get

Spec == Init /\ [][Next]_vars

\* the same program on the arrays of at most MaxLen values only
InitShort ==
  /\ Init
  /\ Len(arr) <= MaxLen

SpecShort == InitShort /\ [][Next]_vars

\* ------------------------------------------------------------------------
\* Vocabulary of the properties (the layout and ranges the specification
\* states, written without the codecs' own operators)
\* ------------------------------------------------------------------------

\* v lies in [0, 2^b)
InUnsigned(v, b) == ~v.neg /\ \A x \in v.bits : x < b

\* v lies in [-2^(b-1), 2^(b-1))
InSigned(v, b) == \A x \in v.bits : x < b - 1

\* ceil(a / b)
CeilDiv(a, b) == (a + b - 1) \div b

\* the ZigZag code of a signed value: 0, -1, 1, -2, 2 ... are 0, 1, 2, 3, 4 ...
ZigZagCode(x) == IF x.neg THEN Dec(Shl(Neg(x), 1)) ELSE Shl(x, 1)

\* the value of arr[i] that is packed: after the optional ZigZag transform
Packed(i) == IF use_zigzag THEN ZigZagCode(arr[i]) ELSE arr[i]

\* a value above M - 1, where M = (1 << kk) - 1 is the reserved token
Escapes(v, kk) == ~BLe(v, Dec(Ones(kk)))

EscapedIndices == {i \in 1..Len(arr) : Escapes(Packed(i), k)}

\* the array is admissible for the codec, ZigZag off
Admissible ==
  IF mode = "overflow"
  THEN /\ \A i \in 1..Len(arr) : InUnsigned(arr[i], 32)
       /\ Cardinality(EscapedIndices) <= 255
  ELSE \A i \in 1..Len(arr) : InUnsigned(arr[i], k)

\* bit p of the body of stream s (the words after the header, LSB first)
BodyBit(s, p) ==
  /\ (p \div 32) + 2 <= Len(s)
  /\ (p % 32) \in s[(p \div 32) + 2].bits

\* the w bits of the body of s from bit position p on, as a number
BodyField(s, p, w) == Big(FALSE, {b \in 0..(w - 1) : BodyBit(s, p + b)})

\* the token stored for index i (0-based) under the layout of the mode
StoredToken(s, i) ==
  IF mode = "aligned"
  THEN LET per == 32 \div k
       IN  BodyField(s, 32 * (i \div per) + (i % per) * k, k)
  ELSE BodyField(s, i * k, k)

\* the length field of the header of stream s
StreamN(s) ==
  IF mode = "overflow" THEN OverflowHeaderLength(s[1]) ELSE HeaderLength(s[1])

\* the width field of the header of stream s
StreamK(s) ==
  IF mode = "overflow" THEN OverflowHeaderK(s[1]) ELSE HeaderK(s[1])

\* ------------------------------------------------------------------------
\* Properties
\* ------------------------------------------------------------------------

\* C1: round trip in every mode, ZigZag off: for an admissible array,
\* decompress(compress(A), out) leaves out equal to A.
C1_RoundTrip ==
  (pc = "unpacked" /\ words = compressed /\ ~use_zigzag /\ Admissible)
    => (raised = "none" /\ out = arr)

\* an overflow round trip of 255 values, all of them escaped
C1_Witness ==
  /\ pc = "unpacked" /\ words = compressed /\ ~use_zigzag /\ Admissible
  /\ mode = "overflow" /\ Cardinality(EscapedIndices) = 255
  /\ out = arr

\* C2: random access in every mode: for an admissible array and every index i
\* in range, get(compress(A), i) = A[i], escaped values included.
C2_RandomAccess ==
  (pc = "read" /\ ~use_zigzag /\ Admissible /\ 0 <= idx /\ idx < Len(arr))
    => (raised = "none" /\ got = arr[idx + 1])

\* get of an escaped value that follows an escaped and an inline value
C2_Witness ==
  /\ pc = "read" /\ ~use_zigzag /\ Admissible /\ mode = "overflow"
  /\ idx = 2 /\ Len(arr) = 3
  /\ EscapedIndices = {1, 3}
  /\ arr[1] # arr[3]
  /\ got = arr[3]

\* C3: signed round trip with ZigZag, cross and aligned: for values in
\* [-2^(k-1), 2^(k-1)), decompress and get give the array back, decode
\* inverts encode, and the stored tokens are the ZigZag codes.
C3_ZigZagRoundTrip ==
  (/\ use_zigzag
   /\ mode \in {"cross", "aligned"}
   /\ \A i \in 1..Len(arr) : InSigned(arr[i], k))
    => /\ (pc = "unpacked" /\ words = compressed)
            => (raised = "none" /\ out = arr)
       /\ (pc = "read" /\ 0 <= idx /\ idx < Len(arr))
            => (raised = "none" /\ got = arr[idx + 1])
       /\ pc = "packed"
            => \A i \in 1..Len(arr) :
                 /\ zigzag_decode(zigzag_encode(arr[i])) = arr[i]
                 /\ StoredToken(compressed, i - 1) = ZigZagCode(arr[i])

\* a cross round trip of <<-1, 2, -1>> at k = 4: tokens 1, 4, 1
C3_Witness ==
  /\ use_zigzag /\ mode = "cross" /\ k = 4
  /\ arr = <<MinusOne, Pow2(1), MinusOne>>
  /\ pc = "unpacked" /\ words = compressed
  /\ out = arr
  /\ StoredToken(compressed, 1) = Pow2(2)

\* C4: compressed length: 1 + ceil(n*k/32) words in cross mode,
\* 1 + ceil(n / floor(32/k)) in aligned mode, 1 + ceil(n*small_k/32) + the
\* number of escaped values in overflow mode.
C4_CompressedLength ==
  pc = "packed" =>
    Len(compressed) =
      CASE mode = "cross"    -> 1 + CeilDiv(Len(arr) * k, 32)
        [] mode = "aligned"  -> 1 + CeilDiv(Len(arr), 32 \div k)
        [] mode = "overflow" -> 1 + CeilDiv(Len(arr) * k, 32)
                                  + Cardinality(EscapedIndices)

\* three 12-bit values in cross mode: 36 bits, two body words
C4_Witness ==
  /\ pc = "packed" /\ mode = "cross" /\ k = 12 /\ Len(arr) = 3
  /\ Len(compressed) = 3

\* C5 as stated: the cross stream is never longer than the aligned stream of
\* the same array at the same k, and the lengths are equal if and only if
\* 32 mod k = 0.
C5_Original ==
  (pc = "packed" /\ mode = "cross") =>
    LET aligned == PackedAligned_compress(k, use_zigzag, arr)
    IN  /\ Len(compressed) <= Len(aligned)
        /\ (Len(compressed) = Len(aligned)) <=> (32 % k = 0)

\* C5 as amended: the cross stream is never longer than the aligned stream,
\* and the lengths are equal whenever 32 mod k = 0 (they can be equal
\* otherwise too, as for every array of at most floor(32/k) values).
C5_CrossVersusAligned ==
  (pc = "packed" /\ mode = "cross") =>
    LET aligned == PackedAligned_compress(k, use_zigzag, arr)
    IN  /\ Len(compressed) <= Len(aligned)
        /\ (32 % k = 0) => (Len(compressed) = Len(aligned))
        /\ (Len(arr) <= 32 \div k) => (Len(compressed) = Len(aligned))

\* three 20-bit values: cross packs them in 2 body words, aligned in 3
C5_Witness ==
  /\ pc = "packed" /\ mode = "cross" /\ k = 20 /\ Len(arr) = 3
  /\ Len(compressed) = 3
  /\ Len(PackedAligned_compress(k, use_zigzag, arr)) = 4

\* C6: get with an index outside [0, n), n the length field of the header,
\* raises at the call and returns no value.
C6_IndexError ==
  (pc = "read" /\ (idx < 0 \/ idx >= StreamN(compressed)))
    => raised # "none"

\* get at index n of a stream of n > 0 values
C6_Witness ==
  /\ pc = "read" /\ Len(arr) > 0 /\ idx = StreamN(compressed)
  /\ raised = "AssertionError"

\* C7: cross and aligned compress raise a value-range error when a value
\* needs more than k bits (after the optional ZigZag transform), and never
\* return a stream instead.
C7_ValueRangeError ==
  (/\ pc = "packed"
   /\ mode \in {"cross", "aligned"}
   /\ \E i \in 1..Len(arr) : ~InUnsigned(Packed(i), k))
    => raised # "none"

\* C8: overflow compress rejects an input with more than 255 escaped values,
\* so that in every stream it returns the number of reserved tokens in the
\* body, the overflow_count field and the number of tail words are equal.
C8_OverflowCountConsistent ==
  (pc = "packed" /\ mode = "overflow") =>
    \/ raised # "none"
    \/ LET n      == Len(arr)
           tokens == Cardinality({i \in 0..(n - 1) :
                                    StoredToken(compressed, i) = Ones(k)})
           count  == OverflowHeaderCount(compressed[1])
           tail   == Len(compressed) - (1 + CeilDiv(n * k, 32))
       IN  tokens = count /\ count = tail

\* the stream s is malformed: its width field is 0, or it is shorter than
\* the header, the body and (overflow) the tail its header announces
Malformed(s) ==
  \/ StreamK(s) = 0
  \/ Len(s) < 1 + CeilDiv(StreamN(s) * StreamK(s), 32)
                + (IF mode = "overflow" THEN OverflowHeaderCount(s[1]) ELSE 0)

\* C9: decompress of a malformed stream returns a short result: out ends
\* with fewer than n values, and no exception escapes (n > 0: of an empty
\* array every result is complete).
C9_MalformedShortResult ==
  (pc = "unpacked" /\ words # <<>> /\ Malformed(words) /\ StreamN(words) > 0)
    => (raised = "none" /\ Len(out) < StreamN(words))

\* C10: overflow escape boundary and tail order: a value v (after the optional
\* ZigZag transform) is stored as token v exactly when v <= M - 1, else as
\* token M with v appended to the tail; the tail starts at word
\* 1 + ceil(n*small_k/32) and holds the escaped values in order.
C10_EscapeBoundaryAndTail ==
  (pc = "packed" /\ mode = "overflow") =>
    LET n    == Len(arr)
        M    == Ones(k)
        from == 1 + CeilDiv(n * k, 32)
        esc  == EscapedIndices
    IN  /\ \A i \in 1..n :
             StoredToken(compressed, i - 1)
               = IF BLe(Packed(i), Dec(M)) THEN Packed(i) ELSE M
        /\ Len(compressed) = from + Cardinality(esc)
        /\ \A i \in esc :
             compressed[from + Cardinality({e \in esc : e <= i})] = Packed(i)

\* <<M - 1, M, 2^32 - 1>> at small_k = 4: M - 1 inline, then two tail words
C10_Witness ==
  /\ pc = "packed" /\ mode = "overflow" /\ k = 4 /\ ~use_zigzag
  /\ arr = <<Dec(Ones(4)), Ones(4), Ones(32)>>
  /\ StoredToken(compressed, 0) = Dec(Ones(4))
  /\ StoredToken(compressed, 1) = Ones(4)
  /\ SubSeq(compressed, 3, 4) = <<Ones(4), Ones(32)>>

====
